---- MODULE Spec2Model ----
(***************************************************************************)
(* Budget chat server (budget_chat/src/main.rs): one thread per connection *)
(* running handle_connection, one Mutex<BudgetChat> holding the            *)
(* Vec<ChatMember>, socket writes performed inside the critical sections.  *)
(***************************************************************************)
EXTENDS Integers, Sequences, FiniteSets, TLC

(* ---------------------------------------------------------------------- *)
(* Bounds                                                                 *)
(* ---------------------------------------------------------------------- *)

\* total number of lines the clients send after the initial state, all
\* connections together
MaxSends == 3

\* the connections
Sessions == {"s1", "s2", "s3", "s4"}

\* the connections the listener has accepted in the initial state
Accepted == {"s1", "s2", "s3"}

\* the raw lines a client may send first (characters, newline terminated)
Lines ==
    { <<"a", "\n">>, <<"b", "\n">>, <<"a", "!", "\n">>, <<" ", "\n">> }

\* the raw lines a client may send after its first
ChatLines == { <<"b", "\n">>, <<" ", "\n">> }

(* ---------------------------------------------------------------------- *)
(* Text                                                                   *)
(* ---------------------------------------------------------------------- *)

\* char::is_alphanumeric over the model's alphabet
is_alphanumeric(c) == c \in {"a", "b", "c", "e", "h", "i", "l", "o", "r"}

\* char::is_whitespace over the model's alphabet
is_whitespace(c) == c \in {" ", "\n"}

RECURSIVE trim_start(_)
trim_start(t) ==
    IF t = <<>> THEN <<>>
    ELSE IF is_whitespace(Head(t)) THEN trim_start(Tail(t)) ELSE t

RECURSIVE trim_end(_)
trim_end(t) ==
    IF t = <<>> THEN <<>>
    ELSE IF is_whitespace(t[Len(t)]) THEN trim_end(SubSeq(t, 1, Len(t) - 1)) ELSE t

\* str::trim
trim(t) == trim_end(trim_start(t))

\* Vec<String>::join
RECURSIVE join(_, _)
join(names, sep) ==
    IF names = <<>> THEN <<>>
    ELSE IF Len(names) = 1 THEN names[1]
    ELSE names[1] \o <<sep>> \o join(Tail(names), sep)

\* the prompt request_name writes
Prompt == <<"Welcome to budgetchat! What shall I call you?">>

user_joined_message_builder(name) == <<"* ">> \o name \o <<" has entered the room">>

user_left_message(name) == <<"* ">> \o name \o <<" has left the room">>

user_chat_message_builder(current_user_name, message) ==
    <<"[">> \o current_user_name \o <<"] ">> \o message

RECURSIVE NamesOf(_)
NamesOf(members) ==
    IF members = <<>> THEN <<>>
    ELSE <<Head(members).name>> \o NamesOf(Tail(members))

RECURSIVE FilterNames(_, _)
FilterNames(names, current_user_name) ==
    IF names = <<>> THEN <<>>
    ELSE IF Head(names) # current_user_name
         THEN <<Head(names)>> \o FilterNames(Tail(names), current_user_name)
         ELSE FilterNames(Tail(names), current_user_name)

\* a room membership line that lists every member, the current user too
room_membership_with_self(current_user_name, members) ==
    <<"* The room contains: ">> \o join(NamesOf(members), ", ")

room_membership_message_builder(current_user_name, members) ==
    <<"* The room contains: ">> \o join(FilterNames(NamesOf(members), current_user_name), ", ")

(* ---------------------------------------------------------------------- *)
(* State                                                                  *)
(* ---------------------------------------------------------------------- *)

VARIABLES
    chat_members,   \* BudgetChat.chat_members: sequence of [name, stream]
    lock,           \* the sessions holding the Mutex<BudgetChat> guard
    pc,             \* where each connection's thread is in handle_connection
    user_name,      \* handle_connection's user_name
    bidx,           \* broadcast_message_to_other_users: index of the next member
    bmsg,           \* broadcast_message_to_other_users: the line being sent
    conn,           \* the client's end of each connection: open or closed
    inbuf,          \* lines that have arrived on the socket and are not read yet
    out,            \* lines written successfully to each connection, in order
    nsent,          \* number of lines the clients have sent
    nbcast,         \* number of broadcasts each session has started
    present,        \* the sessions in their session loop when each session was pushed
    firstline,      \* the raw line request_name read for each session
    failed,         \* the streams at which a write of the session's latest broadcast failed
    ret             \* what the latest call of the chat library returned (chat/budget_chat.rs)

vars == <<chat_members, lock, pc, user_name, bidx, bmsg, conn, inbuf,
          out, nsent, nbcast, present, firstline, failed, ret>>

NoLine == <<"<none>">>

\* no call of the chat library has returned
NoRet == [caller |-> "<none>", op |-> "<none>", val |-> <<>>]

Init ==
    /\ chat_members = <<>>
    /\ lock = {}
    /\ pc = [s \in Sessions |-> IF s \in Accepted THEN "name" ELSE "closed"]
    /\ user_name = [s \in Sessions |-> NoLine]
    /\ bidx = [s \in Sessions |-> 0]
    /\ bmsg = [s \in Sessions |-> NoLine]
    /\ conn = [s \in Sessions |-> IF s \in Accepted THEN "open" ELSE "closed"]
    /\ inbuf = [s \in Sessions |-> <<>>]
    /\ out = [s \in Sessions |-> <<>>]
    /\ nsent = 0
    /\ nbcast = [s \in Sessions |-> 0]
    /\ present = [s \in Sessions |-> {}]
    /\ firstline = [s \in Sessions |-> NoLine]
    /\ failed = [s \in Sessions |-> {}]
    /\ ret = NoRet

(* ---------------------------------------------------------------------- *)
(* Sockets                                                                *)
(* ---------------------------------------------------------------------- *)

\* the results write_all can return on the stream of connection t: a write to
\* an open connection succeeds. conn[t] becomes "closed" at the moment from
\* which writes to t fail: a write that is still buffered after the client has
\* gone is a write before that moment.
WriteResults(t) == IF conn[t] = "open" THEN {TRUE} ELSE {FALSE}

\* the results of the write of the prompt, which is written when the thread
\* starts, before the client's line is read: the client may have gone since
PromptResults(s) == IF conn[s] = "open" THEN {TRUE} ELSE BOOLEAN

\* a line as it is recorded on the receiving connection: the session whose
\* thread wrote it, the number of the broadcast it belongs to (0: none), and
\* the text
Rec(s, ev, kind, text) == [src |-> s, ev |-> ev, kind |-> kind, text |-> text]

(* ---------------------------------------------------------------------- *)
(* The clients                                                            *)
(* ---------------------------------------------------------------------- *)

ClientSend(s, line) ==
    /\ conn[s] = "open"
    /\ pc[s] # "closed"
    /\ (pc[s] = "name" /\ inbuf[s] = <<>>) \/ line \in ChatLines
    /\ nsent < MaxSends
    /\ inbuf' = [inbuf EXCEPT ![s] = Append(@, line)]
    /\ nsent' = nsent + 1
    /\ UNCHANGED <<chat_members, lock, pc, user_name, bidx, bmsg, conn,
                   out, nbcast, present, firstline, failed, ret>>

ClientClose(s) ==
    /\ conn[s] = "open"
    /\ pc[s] # "closed"
    /\ conn' = [conn EXCEPT ![s] = "closed"]
    /\ UNCHANGED <<chat_members, lock, pc, user_name, bidx, bmsg, inbuf,
                   out, nsent, nbcast, present, firstline, failed, ret>>

(* ---------------------------------------------------------------------- *)
(* The end of a thread                                                    *)
(* ---------------------------------------------------------------------- *)

\* the streams of the members of the list
Streams(members) == {members[i].stream : i \in 1..Len(members)}

\* handle_connection returns and drops its stream: the socket is closed
\* unless a member of the list still holds a clone of the stream
ConnAfterReturn(c, members, s) ==
    IF s \in Streams(members) THEN c ELSE [c EXCEPT ![s] = "closed"]

\* the unread input goes with the thread's reader
InbufAfterReturn(s) == [inbuf EXCEPT ![s] = <<>>]

(* ---------------------------------------------------------------------- *)
(* request_name                                                           *)
(* ---------------------------------------------------------------------- *)

\* the scan for non-alphanumeric characters
all_alphanumeric(name) == \A i \in 1..Len(name) : is_alphanumeric(name[i])

\* a request_name without the scan: every line is a name
unscanned_name(raw) == TRUE

\* what request_name decides for the raw line it read: the trimmed line is
\* the name when every character of it is alphanumeric
accepted_name(raw) == all_alphanumeric(trim(raw))

\* the results of read_line: the next line that has arrived, or at the end
\* of a closed connection an empty read or an error
ReadResults(s) ==
    IF inbuf[s] # <<>>
    THEN {[err |-> FALSE, text |-> Head(inbuf[s])]}
    ELSE {[err |-> e, text |-> <<>>] : e \in BOOLEAN}

\* read_line blocks until a line has arrived or the connection is closed
CanRead(s) == inbuf[s] # <<>> \/ conn[s] = "closed"

\* request_name: None for a failed write of the prompt, a failed or empty
\* read and a rejected name
name_is_some(ok, r) == ok /\ ~r.err /\ r.text # <<>> /\ accepted_name(r.text)

(* ---------------------------------------------------------------------- *)
(* The lock and the broadcast loop                                        *)
(* ---------------------------------------------------------------------- *)

\* a registry used without its guard
unguarded(s) == TRUE

\* budget_chat.lock() returns when nobody holds the guard
CanLock(s) == lock = {}

\* a broadcast loop that skips nobody
skips_nobody(other, current_user_name) == FALSE

\* the test that skips the current user in the broadcast loop
is_current_user(other, current_user_name) == other.name = current_user_name

\* position of the first member the predicate of find/position accepts; 0: none
RECURSIVE position(_, _, _)
position(members, name, i) ==
    IF i > Len(members) THEN 0
    ELSE IF members[i].name = name THEN i
    ELSE position(members, name, i + 1)

\* Vec::remove
\* a removal that leaves the list as it is
remove_nothing(members, idx) == members

remove(members, idx) ==
    SubSeq(members, 1, idx - 1) \o SubSeq(members, idx + 1, Len(members))

\* a registration scope that removes the oldest member
first_idx(members) == 1

\* the index of the member the registration scope removes when the room
\* membership could not be written
last_idx(members) == Len(members)

\* where handle_connection goes on after a broadcast of this kind
AfterBroadcast(kind) == IF kind = "leave" THEN "closed" ELSE "read"

\* a handler that returned from the broadcast without dropping the guard
guard_kept(s, kind, members, c, in) ==
    /\ pc' = [pc EXCEPT ![s] = AfterBroadcast(kind)]
    /\ lock' = lock
    /\ bidx' = [bidx EXCEPT ![s] = 0]
    /\ bmsg' = [bmsg EXCEPT ![s] = NoLine]
    /\ IF kind = "leave"
       THEN /\ conn' = ConnAfterReturn(c, members, s)
            /\ inbuf' = [in EXCEPT ![s] = <<>>]
       ELSE /\ conn' = c
            /\ inbuf' = in

\* the broadcast returns: the guard is dropped and handle_connection goes on,
\* to the next read or, after the departure, to its end
EndBroadcast(s, kind, members, c, in) ==
    /\ pc' = [pc EXCEPT ![s] = AfterBroadcast(kind)]
    /\ lock' = lock \ {s}
    /\ bidx' = [bidx EXCEPT ![s] = 0]
    /\ bmsg' = [bmsg EXCEPT ![s] = NoLine]
    /\ IF kind = "leave"
       THEN /\ conn' = ConnAfterReturn(c, members, s)
            /\ inbuf' = [in EXCEPT ![s] = <<>>]
       ELSE /\ conn' = c
            /\ inbuf' = in

\* broadcast_message_to_other_users is entered with the lock held; with no
\* member to visit it returns at once
BeginBroadcast(s, kind, name, text, members, c, in) ==
    /\ chat_members' = members
    /\ nbcast' = [nbcast EXCEPT ![s] = @ + 1]
    /\ failed' = [failed EXCEPT ![s] = {}]
    /\ IF members = <<>>
       THEN EndBroadcast(s, kind, members, c, in)
       ELSE /\ pc' = [pc EXCEPT ![s] = "broadcast"]
            /\ lock' = lock \cup {s}
            /\ bidx' = [bidx EXCEPT ![s] = 1]
            /\ bmsg' = [bmsg EXCEPT ![s] = Rec(s, nbcast[s] + 1, kind, text)]
            /\ conn' = c
            /\ inbuf' = in

\* one iteration of the loop over chat_members; after the last member the
\* function returns
BroadcastStep(s) ==
    /\ pc[s] = "broadcast"
    /\ LET i == bidx[s]
       IN  /\ IF i > Len(chat_members)
              THEN UNCHANGED <<out, failed>>
              ELSE LET other == chat_members[i]
                   IN  IF is_current_user(other, user_name[s])
                       THEN UNCHANGED <<out, failed>>
                       ELSE \E ok \in WriteResults(other.stream) :
                            IF ok
                            THEN /\ out' = [out EXCEPT ![other.stream] = Append(@, bmsg[s])]
                                 /\ UNCHANGED failed
                            ELSE /\ failed' = [failed EXCEPT ![s] = @ \cup {other.stream}]
                                 /\ UNCHANGED out
           /\ IF i >= Len(chat_members)
              THEN EndBroadcast(s, bmsg[s].kind, chat_members, conn, inbuf)
              ELSE /\ bidx' = [bidx EXCEPT ![s] = i + 1]
                   /\ UNCHANGED <<pc, lock, bmsg, conn, inbuf>>
    /\ UNCHANGED <<chat_members, user_name, nsent, nbcast, present, firstline, ret>>

(* ---------------------------------------------------------------------- *)
(* handle_connection: registration                                        *)
(* ---------------------------------------------------------------------- *)

\* the sessions whose threads are in the session loop
InLoop == {t \in Sessions : pc[t] \in {"read", "broadcast"}}

\* send_message_to_current_user writes to the first member that has the name
current_user_stream(members, name) == members[position(members, name, 1)].stream

\* register_new_chat_member and the registration scope. The prompt is
\* written, and read_line on a fresh BufReader takes every byte that has
\* arrived, returns the first line and is dropped with the rest; without a
\* name the session ends. With one, under the lock, the member is pushed and
\* the room membership is written to the current user: a failed write removes
\* the last member and ends the session, a successful one starts the
\* broadcast of the join.
Register(s) ==
    /\ pc[s] = "name"
    /\ CanRead(s)
    /\ \E ok \in PromptResults(s), r \in ReadResults(s) :
        /\ firstline' = IF ok /\ inbuf[s] # <<>>
                        THEN [firstline EXCEPT ![s] = r.text]
                        ELSE firstline
        /\ IF ~name_is_some(ok, r)
           THEN /\ out' = IF ok
                          THEN [out EXCEPT ![s] = Append(@, Rec(s, 0, "prompt", Prompt))]
                          ELSE out
                /\ pc' = [pc EXCEPT ![s] = "closed"]
                /\ conn' = ConnAfterReturn(conn, chat_members, s)
                /\ inbuf' = InbufAfterReturn(s)
                /\ UNCHANGED <<chat_members, lock, user_name, bidx, bmsg, nbcast,
                               present, failed>>
           ELSE LET name == trim(r.text)
                    pushed == Append(chat_members, [name |-> name, stream |-> s])
                    roster == room_membership_message_builder(name, pushed)
                    t == current_user_stream(pushed, name)
                    prompted == [out EXCEPT ![s] = Append(@, Rec(s, 0, "prompt", Prompt))]
                IN  /\ CanLock(s)
                    /\ user_name' = [user_name EXCEPT ![s] = name]
                    /\ present' = [present EXCEPT ![s] = InLoop]
                    /\ \E sent \in WriteResults(t) :
                        IF sent
                        THEN /\ out' = [prompted EXCEPT ![t] =
                                            Append(@, Rec(s, 0, "roster", roster))]
                             /\ BeginBroadcast(s, "join", name,
                                               user_joined_message_builder(name),
                                               pushed, conn, [inbuf EXCEPT ![s] = <<>>])
                        ELSE /\ out' = prompted
                             /\ chat_members' = remove(pushed, last_idx(pushed))
                             /\ pc' = [pc EXCEPT ![s] = "closed"]
                             /\ conn' = ConnAfterReturn(conn, remove(pushed, last_idx(pushed)), s)
                             /\ inbuf' = InbufAfterReturn(s)
                             /\ UNCHANGED <<lock, bidx, bmsg, nbcast, failed>>
    /\ UNCHANGED <<nsent, ret>>

(* ---------------------------------------------------------------------- *)
(* handle_connection: the session loop                                    *)
(* ---------------------------------------------------------------------- *)

\* drop(member): the member's clone of the stream is dropped, which closes
\* the socket when the thread that owned the stream has returned
ConnAfterDrop(member) ==
    IF pc[member.stream] \in {"closed", "panicked"}
    THEN [conn EXCEPT ![member.stream] = "closed"]
    ELSE conn

\* remove_user_from_chat: the first member with the name is removed and the
\* departure is broadcast; no such member is a panic, which unwinds the
\* thread: the guard and the thread's stream are dropped
RemoveUserFromChat(s, in) ==
    LET idx == position(chat_members, user_name[s], 1)
    IN  IF idx = 0
        THEN /\ pc' = [pc EXCEPT ![s] = "panicked"]
             /\ conn' = ConnAfterReturn(conn, chat_members, s)
             /\ inbuf' = InbufAfterReturn(s)
             /\ UNCHANGED <<chat_members, lock, bidx, bmsg, nbcast, failed>>
        ELSE BeginBroadcast(s, "leave", user_name[s], user_left_message(user_name[s]),
                            remove(chat_members, idx), ConnAfterDrop(chat_members[idx]),
                            in)

\* one iteration of the session loop: read_line, and under the lock the
\* departure for a failed read or an empty message, else the broadcast of the
\* message
ReadMessage(s) ==
    /\ pc[s] = "read"
    /\ CanRead(s)
    /\ CanLock(s)
    /\ \E r \in ReadResults(s) :
        LET message == trim(r.text)
            rest == IF inbuf[s] # <<>> THEN [inbuf EXCEPT ![s] = Tail(@)] ELSE inbuf
        IN  IF r.err \/ message = <<>>
            THEN RemoveUserFromChat(s, rest)
            ELSE IF chat_members = <<>>
            THEN /\ inbuf' = rest
                 /\ UNCHANGED <<chat_members, lock, pc, bidx, bmsg, nbcast, failed, conn>>
            ELSE BeginBroadcast(s, "msg", user_name[s],
                                user_chat_message_builder(user_name[s], message),
                                chat_members, conn, rest)
    /\ UNCHANGED <<user_name, out, nsent, present, firstline, ret>>

(* ---------------------------------------------------------------------- *)
(* Specification                                                          *)
(* ---------------------------------------------------------------------- *)

Next ==
    \/ \E s \in Sessions, line \in Lines : ClientSend(s, line)
    \/ \E s \in Sessions : ClientClose(s)
    \/ \E s \in Sessions : Register(s)
    \/ \E s \in Sessions : BroadcastStep(s)
    \/ \E s \in Sessions : ReadMessage(s)

Spec == Init /\ [][Next]_vars

(* ---------------------------------------------------------------------- *)
(* Vocabulary of the properties                                           *)
(* ---------------------------------------------------------------------- *)

\* the lines of the log that belong to broadcasts started by session s
BroadcastsFrom(log, s) ==
    SelectSeq(log, LAMBDA r : r.src = s /\ r.kind \in {"join", "msg", "leave"})

\* the number of times the record occurs in the log
Count(log, rec) == Cardinality({i \in 1..Len(log) : log[i] = rec})

\* the records of the log
Records(log) == {log[i] : i \in 1..Len(log)}

\* session t is a registered member whose connection works
Active(t) == pc[t] \in {"read", "broadcast"} /\ conn[t] = "open"

\* a step in which session s, whose client has disconnected, departs having
\* broadcast nothing but its join and its departure
DisconnectsSilently(s) ==
    /\ pc[s] \in {"read", "broadcast"}
    /\ conn[s] = "closed"
    /\ pc'[s] = "closed"
    /\ nbcast'[s] = 2

\* a step in which the registration of session s succeeds
Registers(s) == pc[s] = "name" /\ pc'[s] \in {"read", "broadcast"}

(* ---------------------------------------------------------------------- *)
(* C1                                                                     *)
(* ---------------------------------------------------------------------- *)

\* C1: when a session registers as n and then disconnects without sending a
\* message, every other member that is active from its registration to its
\* departure has received exactly one "* n has entered the room" and after
\* it exactly one "* n has left the room" from that session.
C1_Claimed ==
    [][\A s \in Sessions :
        DisconnectsSilently(s) =>
            \A t \in present[s] \ {s} :
                Active(t)' =>
                    BroadcastsFrom(out'[t], s) =
                        << Rec(s, 1, "join", user_joined_message_builder(user_name[s])),
                           Rec(s, 2, "leave", user_left_message(user_name[s])) >>]_vars

(* ---------------------------------------------------------------------- *)
(* C2                                                                     *)
(* ---------------------------------------------------------------------- *)

\* C2: the roster line written for a joining session lists exactly the names
\* of the other members of the registry at the instant of the join, none
\* missing and none added, names distinct or not.
C2_Claimed ==
    [][\A s \in Sessions :
        Registers(s) =>
            \E t \in Sessions :
                /\ out'[t] # <<>>
                /\ out'[t][Len(out'[t])] =
                      Rec(s, 0, "roster",
                          <<"* The room contains: ">> \o join(NamesOf(chat_members), ", "))]_vars

(* ---------------------------------------------------------------------- *)
(* C3                                                                     *)
(* ---------------------------------------------------------------------- *)

\* C3: no other member is sent "* <name> has entered the room" for a
\* newcomer unless the newcomer's own roster line has been written to the
\* newcomer's connection.
C3_Claimed ==
    \A s \in Sessions : \A t \in Sessions \ {s} :
        (\E r \in Records(out[t]) : r.src = s /\ r.kind = "join")
            => \E r \in Records(out[s]) : r.src = s /\ r.kind = "roster"

(* ---------------------------------------------------------------------- *)
(* C4                                                                     *)
(* ---------------------------------------------------------------------- *)

\* C4: no line of a broadcast a session has started (its join, its messages,
\* its departure) is written to that session's own connection.
C4_NoOwnBroadcast ==
    \A s \in Sessions : BroadcastsFrom(out[s], s) = <<>>

\* a session has joined, sent a message and departed, and another session
\* has received the three broadcasts
C4_Witness ==
    \E s \in Sessions : \E t \in Sessions \ {s} :
        /\ pc[s] = "closed"
        /\ Len(BroadcastsFrom(out[t], s)) = 3

(* ---------------------------------------------------------------------- *)
(* C5                                                                     *)
(* ---------------------------------------------------------------------- *)

\* C5: a non-empty trimmed line L read from a member named n starts the
\* broadcast of "[n] L", and when the session loop is back at its read the
\* line has been written exactly once to every other active member and to
\* nobody else.
C5_Claimed ==
    [][\A s \in Sessions :
        /\ (/\ pc[s] = "read"
            /\ inbuf[s] # <<>>
            /\ trim(Head(inbuf[s])) # <<>>
            /\ inbuf'[s] = Tail(inbuf[s]))
           => /\ pc'[s] = "broadcast"
              /\ bmsg'[s] = Rec(s, nbcast[s] + 1, "msg",
                                <<"[">> \o user_name[s] \o <<"] ">> \o trim(Head(inbuf[s])))
        /\ (pc[s] = "broadcast" /\ bmsg[s].kind = "msg" /\ pc'[s] = "read")
           => \A t \in Sessions :
                Count(out'[t], bmsg[s]) = IF t # s /\ Active(t)' THEN 1 ELSE 0]_vars

(* ---------------------------------------------------------------------- *)
(* C6                                                                     *)
(* ---------------------------------------------------------------------- *)

\* C6: when a write of a broadcast has failed, the broadcast has still
\* written the line to every other active member that is not the sender.
C6_Claimed ==
    [][\A s \in Sessions :
        (pc[s] = "broadcast" /\ pc'[s] # "broadcast" /\ failed'[s] # {})
            => \A t \in Sessions \ {s} :
                 Active(t)' => bmsg[s] \in Records(out'[t])]_vars

(* ---------------------------------------------------------------------- *)
(* C7                                                                     *)
(* ---------------------------------------------------------------------- *)

\* the name of the raw line has a character that is not alphanumeric
NonAlphanumericName(raw) ==
    \E i \in 1..Len(trim(raw)) : ~is_alphanumeric(trim(raw)[i])

\* the name occurs in the text
Mentions(text, name) ==
    \E i \in 0..(Len(text) - Len(name)) : SubSeq(text, i + 1, i + Len(name)) = name

C8_Claimed ==
    \A s \in Sessions :
        (firstline[s] # NoLine /\ trim(firstline[s]) = <<>>)
        => /\ pc[s] = "closed"
           /\ \A i \in 1..Len(chat_members) : chat_members[i].name # <<>>
           /\ s \notin Streams(chat_members)
           /\ \A t \in Sessions : \A r \in Records(out[t]) :
                r.src = s => r.kind = "prompt"

(* ---------------------------------------------------------------------- *)
(* C9                                                                     *)
(* ---------------------------------------------------------------------- *)

\* C9: the registry never holds two entries for one session, a successful
\* registration adds exactly the entry of its own session and a failed one
\* adds none, and neither changes an entry of another session.
C9_RegistrationsDistinct ==
    /\ [](\A i, j \in 1..Len(chat_members) :
            chat_members[i].stream = chat_members[j].stream => i = j)
    /\ [][\A s \in Sessions :
            (pc[s] = "name" /\ pc'[s] # "name")
            => chat_members' =
                 IF pc'[s] = "closed"
                 THEN chat_members
                 ELSE Append(chat_members, [name |-> user_name'[s], stream |-> s])]_vars

\* two sessions are registered and the registration of a third has failed
\* at its roster
C9_Witness ==
    /\ Len(chat_members) = 2
    /\ \E s \in Sessions :
        /\ pc[s] = "closed"
        /\ user_name[s] # NoLine
        /\ nbcast[s] = 0

(* ---------------------------------------------------------------------- *)
(* C10                                                                    *)
(* ---------------------------------------------------------------------- *)

\* The chat with four connections accepted, when the first two have
\* registered one after the other as "a" and "b" and their clients have
\* closed, which their threads have not read yet, and the other two have
\* just been accepted.
Registered == {"s1", "s2"}

InitOrder ==
    /\ chat_members = << [name |-> <<"a">>, stream |-> "s1"],
                         [name |-> <<"b">>, stream |-> "s2"] >>
    /\ lock = {}
    /\ pc = [s \in Sessions |-> IF s \in Registered THEN "read" ELSE "name"]
    /\ user_name = [s \in Sessions |->
                      IF s = "s1" THEN <<"a">> ELSE IF s = "s2" THEN <<"b">> ELSE NoLine]
    /\ bidx = [s \in Sessions |-> 0]
    /\ bmsg = [s \in Sessions |-> NoLine]
    /\ conn = [s \in Sessions |-> IF s \in Registered THEN "closed" ELSE "open"]
    /\ inbuf = [s \in Sessions |-> <<>>]
    /\ out = [s \in Sessions |->
                IF s = "s1"
                THEN << Rec("s1", 0, "prompt", Prompt),
                        Rec("s1", 0, "roster", room_membership_message_builder(<<"a">>, <<>>)),
                        Rec("s2", 1, "join", user_joined_message_builder(<<"b">>)) >>
                ELSE IF s = "s2"
                THEN << Rec("s2", 0, "prompt", Prompt),
                        Rec("s2", 0, "roster",
                            room_membership_message_builder(<<"b">>,
                                << [name |-> <<"a">>, stream |-> "s1"] >>)) >>
                ELSE <<>>]
    /\ nsent = 0
    /\ nbcast = [s \in Sessions |-> IF s \in Registered THEN 1 ELSE 0]
    /\ present = [s \in Sessions |-> IF s = "s2" THEN {"s1"} ELSE {}]
    /\ firstline = [s \in Sessions |->
                      IF s = "s1" THEN <<"a", "\n">>
                      ELSE IF s = "s2" THEN <<"b", "\n">> ELSE NoLine]
    /\ failed = [s \in Sessions |-> {}]
    /\ ret = NoRet

SpecOrder == InitOrder /\ [][Next]_vars

\* the record x is written to the log before the record y
Precedes(log, x, y) ==
    \E k \in 1..Len(log) : log[k] = x /\ \E l \in (k + 1)..Len(log) : log[l] = y

\* C10: the joins, messages and departures have one order: two of them that
\* reach two connections reach both in the same order.
C10_OneOrder ==
    \A t1 \in Sessions : \A t2 \in Sessions \ {t1} :
        \A i \in 1..Len(out[t1]) : \A j \in (i + 1)..Len(out[t1]) :
            (out[t1][i].ev > 0 /\ out[t1][j].ev > 0 /\ out[t1][i] # out[t1][j])
                => ~Precedes(out[t2], out[t1][j], out[t1][i])

\* two connections have both received the same two events of two different
\* sessions
C10_Witness ==
    \E t1 \in Sessions : \E t2 \in Sessions \ {t1} :
        \E x \in Records(out[t1]) : \E y \in Records(out[t1]) :
            /\ x.ev > 0 /\ y.ev > 0 /\ x.src # y.src
            /\ Precedes(out[t1], x, y)
            /\ Precedes(out[t2], x, y)

(* ---------------------------------------------------------------------- *)
(* C11                                                                    *)
(* ---------------------------------------------------------------------- *)

Alice == <<"a", "l", "i", "c", "e">>
Bob == <<"b", "o", "b">>
Carol == <<"c", "a", "r", "o", "l">>
Hi == <<"h", "i">>

\* the names the clients of the scenario register with, in turn
ScenarioNames == <<Alice, Bob, Carol>>

\* every line sent has been handled: no thread has input to read or a
\* broadcast to finish
Quiescent ==
    /\ lock = {}
    /\ \A s \in Sessions : inbuf[s] = <<>> /\ pc[s] # "broadcast"

\* the next client of the scenario sends its name, or alice sends "hi", once
\* the server has handled what was sent before
ScenarioSend(s, line) ==
    /\ Quiescent
    /\ conn[s] = "open"
    /\ \/ /\ nsent < Len(ScenarioNames)
          /\ pc[s] = "name"
          /\ line = ScenarioNames[nsent + 1] \o <<"\n">>
       \/ /\ nsent = Len(ScenarioNames)
          /\ pc[s] = "read"
          /\ user_name[s] = Alice
          /\ line = Hi \o <<"\n">>
    /\ inbuf' = [inbuf EXCEPT ![s] = Append(@, line)]
    /\ nsent' = nsent + 1
    /\ UNCHANGED <<chat_members, lock, pc, user_name, bidx, bmsg, conn,
                   out, nbcast, present, firstline, failed, ret>>

\* bob disconnects after alice's message has been delivered
ScenarioClose(s) ==
    /\ Quiescent
    /\ nsent = Len(ScenarioNames) + 1
    /\ pc[s] = "read"
    /\ user_name[s] = Bob
    /\ ClientClose(s)

\* four connections accepted, nobody registered
InitScenario ==
    /\ chat_members = <<>>
    /\ lock = {}
    /\ pc = [s \in Sessions |-> "name"]
    /\ user_name = [s \in Sessions |-> NoLine]
    /\ bidx = [s \in Sessions |-> 0]
    /\ bmsg = [s \in Sessions |-> NoLine]
    /\ conn = [s \in Sessions |-> "open"]
    /\ inbuf = [s \in Sessions |-> <<>>]
    /\ out = [s \in Sessions |-> <<>>]
    /\ nsent = 0
    /\ nbcast = [s \in Sessions |-> 0]
    /\ present = [s \in Sessions |-> {}]
    /\ firstline = [s \in Sessions |-> NoLine]
    /\ failed = [s \in Sessions |-> {}]
    /\ ret = NoRet

NextScenario ==
    \/ \E s \in Sessions, line \in {n \o <<"\n">> : n \in {Alice, Bob, Carol, Hi}} :
            ScenarioSend(s, line)
    \/ \E s \in Sessions : ScenarioClose(s)
    \/ \E s \in Sessions : Register(s)
    \/ \E s \in Sessions : BroadcastStep(s)
    \/ \E s \in Sessions : ReadMessage(s)

SpecScenario == InitScenario /\ [][NextScenario]_vars

\* the texts of the lines of the log
TextOf(log) == [i \in 1..Len(log) |-> log[i].text]

IsPrefix(p, q) == Len(p) <= Len(q) /\ SubSeq(q, 1, Len(p)) = p

\* the lines the scenario has the client of that name receive, after the
\* prompt every connection gets
ScenarioLog(name) ==
    IF name = Alice
    THEN << Prompt,
            <<"* The room contains: ">>,
            <<"* ", "b", "o", "b", " has entered the room">>,
            <<"* ", "c", "a", "r", "o", "l", " has entered the room">>,
            <<"* ", "b", "o", "b", " has left the room">> >>
    ELSE IF name = Bob
    THEN << Prompt,
            <<"* The room contains: ", "a", "l", "i", "c", "e">>,
            <<"* ", "c", "a", "r", "o", "l", " has entered the room">>,
            <<"[", "a", "l", "i", "c", "e", "] ", "h", "i">> >>
    ELSE IF name = Carol
    THEN << Prompt,
            <<"* The room contains: ", "a", "l", "i", "c", "e", ", ", "b", "o", "b">>,
            <<"[", "a", "l", "i", "c", "e", "] ", "h", "i">>,
            <<"* ", "b", "o", "b", " has left the room">> >>
    ELSE <<>>

\* bob's session has ended
ScenarioDone == \E s \in Sessions : user_name[s] = Bob /\ pc[s] = "closed"

\* C11: in the scenario run step by step, no client ever has a line that is
\* not the next one the scenario gives it, and when bob has left alice, bob
\* and carol have received exactly their lines of the scenario.
C11_Scenario ==
    \A s \in Sessions :
        /\ IsPrefix(TextOf(out[s]), ScenarioLog(user_name[s]))
        /\ ScenarioDone => TextOf(out[s]) = ScenarioLog(user_name[s])

\* the scenario has run to its end with the three clients registered
C11_Witness ==
    /\ ScenarioDone
    /\ \A n \in {Alice, Bob, Carol} : \E s \in Sessions : user_name[s] = n
    /\ nsent = Len(ScenarioNames) + 1

(* ---------------------------------------------------------------------- *)
(* C12                                                                    *)
(* ---------------------------------------------------------------------- *)

\* a step in which session s, its name accepted, fails to have its room
\* membership written and ends
RosterFails(s) == pc[s] = "name" /\ user_name'[s] # NoLine /\ pc'[s] = "closed"

\* the registration of session s has ended at a failed room membership
RosterFailed(s) == pc[s] = "closed" /\ user_name[s] # NoLine /\ nbcast[s] = 0

\* C12: when the write of the room membership fails, the new member is
\* removed and every other entry is as before, the connection ends, and no
\* join and no departure is ever broadcast for the session.
C12_RosterFailureRemoves ==
    /\ [][\A s \in Sessions :
            RosterFails(s)
            => /\ chat_members' = chat_members
               /\ conn'[s] = "closed"
               /\ nbcast'[s] = 0
               /\ \A t \in Sessions \ {s} : out'[t] = out[t]
               /\ out'[s] = Append(out[s], Rec(s, 0, "prompt", Prompt))]_vars
    /\ [](\A s \in Sessions :
            RosterFailed(s)
            => /\ s \notin Streams(chat_members)
               /\ \A t \in Sessions : BroadcastsFrom(out[t], s) = <<>>)

\* a registration under a name nobody else has used has failed at its room
\* membership while a member is active in the room
C12_Witness ==
    \E s \in Sessions : \E t \in Sessions \ {s} :
        /\ RosterFailed(s)
        /\ \A u \in Sessions \ {s} : user_name[u] # user_name[s]
        /\ Active(t)
        /\ t \in Streams(chat_members)

(* ---------------------------------------------------------------------- *)
(* C13                                                                    *)
(* ---------------------------------------------------------------------- *)

\* a step in which the session loop of s handles a failed read, the end of
\* the input or a line that is empty when trimmed
DepartingRead(s) ==
    /\ pc[s] = "read"
    /\ pc'[s] # "read"
    /\ inbuf[s] = <<>> \/ trim(Head(inbuf[s])) = <<>>

\* C13: on a failed read, the end of the input or an empty line the session
\* departs: its own entry and no other leaves the registry, its departure
\* and nothing else is broadcast, once to every remaining active member,
\* and the session loop ends.
C13_Claimed ==
    [][\A s \in Sessions :
        /\ DepartingRead(s)
           => /\ Streams(chat_members') = Streams(chat_members) \ {s}
              /\ pc'[s] \in {"broadcast", "closed"}
              /\ pc'[s] = "broadcast"
                   => bmsg'[s] = Rec(s, nbcast[s] + 1, "leave",
                                     user_left_message(user_name[s]))
        /\ (pc[s] = "broadcast" /\ bmsg[s].kind = "leave" /\ pc'[s] = "closed")
           => \A t \in Sessions \ {s} :
                Active(t)' => Count(out'[t], bmsg[s]) = 1]_vars

(* ---------------------------------------------------------------------- *)
(* C14                                                                    *)
(* ---------------------------------------------------------------------- *)

\* a step in which a write of the broadcast of session s to the stream t
\* is attempted and fails
WriteFails(s, t) == t \notin failed[s] /\ t \in failed'[s]

\* C14: a recipient at which a write of a broadcast has failed is skipped
\* by every later broadcast: no write of the broadcast of another session
\* is attempted at it.
C14_Claimed ==
    [][\A s \in Sessions : \A t \in Sessions :
        WriteFails(s, t) => \A u \in Sessions \ {s} : t \notin failed[u]]_vars

(* ---------------------------------------------------------------------- *)
(* C15                                                                    *)
(* ---------------------------------------------------------------------- *)

\* a step of the broadcast loop of session s at a member of the list
VisitsMember(s) ==
    /\ pc[s] = "broadcast"
    /\ bidx[s] <= Len(chat_members)
    /\ pc'[s] # pc[s] \/ bidx'[s] # bidx[s]

\* C15: sessions that register with one name are separate entries, and the
\* broadcast loop skips the entry of the sender's own session and no other:
\* the line is written to every other entry whose connection works, a
\* namesake's too.
C15_Claimed ==
    [][\A s \in Sessions :
        /\ Registers(s)
           => chat_members' = Append(chat_members, [name |-> user_name'[s], stream |-> s])
        /\ VisitsMember(s)
           => LET other == chat_members[bidx[s]]
              IN  IF other.stream = s
                  THEN out' = out
                  ELSE conn[other.stream] = "open"
                         => out'[other.stream] = Append(out[other.stream], bmsg[s])]_vars

(* ---------------------------------------------------------------------- *)
(* C16                                                                    *)
(* ---------------------------------------------------------------------- *)

\* C16: the entry of a registered session leaves the registry only in the
\* step in which its own session handles a failed read, the end of its
\* input or an empty line, so a registered session whose connection works
\* has its entry.
C16_Claimed ==
    /\ [][\A t \in Sessions :
            (t \in Streams(chat_members) /\ t \notin Streams(chat_members'))
                => DepartingRead(t)]_vars
    /\ [](\A t \in Sessions : Active(t) => t \in Streams(chat_members))

(* ---------------------------------------------------------------------- *)
(* C17                                                                    *)
(* ---------------------------------------------------------------------- *)

\* C17: the room membership line made for a joining session is on no
\* connection but that session's own.
C17_Claimed ==
    \A t \in Sessions : \A r \in Records(out[t]) :
        r.kind = "roster" => r.src = t

(* ---------------------------------------------------------------------- *)
(* The chat library (chat/budget_chat.rs, chat/chat_member.rs)            *)
(*                                                                        *)
(* BudgetChat here holds chat_members as a HashMap from session id to     *)
(* ChatMember behind its own mutex. main.rs does not use it; its methods  *)
(* are public and are called here by the threads of the sessions in any   *)
(* order and with any argument. In this specification chat_members is the *)
(* map, a function on the session ids it holds, and the stream of a       *)
(* member is a clone of the stream of its owning session, whose thread    *)
(* keeps the connection open.                                             *)
(* ---------------------------------------------------------------------- *)

\* total number of lines the calls of the library write or broadcast
MaxBroadcasts == 1

\* the session ids of the callers and of the members
ChatSessions == {"s1", "s2", "s3"}

\* the name of a member that register_new_member has not registered
Unregistered == <<"UNREGISTERED">>

\* the members a caller can hand to add_new_member
NewMembers ==
    {[name |-> n, registered |-> TRUE, owning_session_id |-> k] :
        n \in {<<"a">>, <<"b">>}, k \in ChatSessions}
    \cup {[name |-> Unregistered, registered |-> FALSE, owning_session_id |-> k] :
            k \in ChatSessions}

\* the messages a caller can hand to broadcast_message_to_chat and
\* send_message_to_session
ChatMessages == {<<"m">>}

\* HashMap::insert and HashMap::remove
insert(members, key, member) ==
    [k \in DOMAIN members \cup {key} |-> IF k = key THEN member ELSE members[k]]

remove_key(members, key) == [k \in DOMAIN members \ {key} |-> members[k]]

\* the orders in which an iteration can visit the keys of a HashMap
IterationOrders(keys) ==
    {o \in [1..Cardinality(keys) -> keys] : \A i, j \in DOMAIN o : o[i] = o[j] => i = j}

\* the number of lines written or about to be written by the calls of the
\* library is below the bound
RECURSIVE Total(_, _)
Total(f, keys) ==
    IF keys = {} THEN 0
    ELSE LET k == CHOOSE x \in keys : TRUE IN f[k] + Total(f, keys \ {k})

CanWrite ==
    Total(nbcast, Sessions) + Cardinality({s \in Sessions : pc[s] = "leaving"}) < MaxBroadcasts

InitChat ==
    /\ chat_members = <<>>
    /\ lock = {}
    /\ pc = [s \in Sessions |-> IF s \in ChatSessions THEN "idle" ELSE "closed"]
    /\ user_name = [s \in Sessions |-> NoLine]
    /\ bidx = [s \in Sessions |-> 0]
    /\ bmsg = [s \in Sessions |-> NoLine]
    /\ conn = [s \in Sessions |-> IF s \in ChatSessions THEN "open" ELSE "closed"]
    /\ inbuf = [s \in Sessions |-> <<>>]
    /\ out = [s \in Sessions |-> <<>>]
    /\ nsent = 0
    /\ nbcast = [s \in Sessions |-> 0]
    /\ present = [s \in Sessions |-> {}]
    /\ firstline = [s \in Sessions |-> NoLine]
    /\ failed = [s \in Sessions |-> {}]
    /\ ret = NoRet

\* what every call of the library leaves alone
ChatUnused == <<lock, user_name, bidx, inbuf, nsent, present, firstline>>

\* a call returns a value, or panics
Returns(s, op, val) == ret' = [caller |-> s, op |-> op, val |-> val]

\* a call returns ()
ReturnsUnit == ret' = NoRet

\* add_new_member: the member is inserted under its owning session id
ChatAddNewMember(s, chat_member) ==
    /\ pc[s] = "idle"
    /\ CanLock(s)
    /\ chat_members' = insert(chat_members, chat_member.owning_session_id,
                              [name |-> chat_member.name,
                               registered |-> chat_member.registered])
    /\ ReturnsUnit
    /\ UNCHANGED <<pc, bmsg, conn, out, nbcast, failed>>
    /\ UNCHANGED ChatUnused

\* the task of the caller panics: the guard is dropped in the unwinding
Panics(s, op) ==
    /\ pc' = [pc EXCEPT ![s] = "panicked"]
    /\ Returns(s, op, <<"panic">>)

\* send_message_to_session: the line is written to the member of the
\* caller's session id; without such a member the expect panics
ChatSendMessageToSession(s, message) ==
    /\ pc[s] = "idle"
    /\ CanLock(s)
    /\ CanWrite
    /\ IF s \notin DOMAIN chat_members
       THEN /\ Panics(s, "send_message_to_session")
            /\ UNCHANGED <<out, nbcast>>
       ELSE \E ok \in WriteResults(s) :
            /\ out' = IF ok
                      THEN [out EXCEPT ![s] =
                              Append(@, Rec(s, nbcast[s] + 1, "send", message))]
                      ELSE out
            /\ nbcast' = [nbcast EXCEPT ![s] = @ + 1]
            /\ Returns(s, "send_message_to_session", IF ok THEN <<"Ok">> ELSE <<"Err">>)
            /\ UNCHANGED pc
    /\ UNCHANGED <<chat_members, bmsg, conn, failed>>
    /\ UNCHANGED ChatUnused

\* the members the loop of broadcast_message_to_chat writes to: not the one
\* under the current session id, and none that is not registered
recipients(members, current_session_id) ==
    {k \in DOMAIN members : k # current_session_id /\ members[k].registered}

\* the loop of broadcast_message_to_chat over the map, under the lock
Broadcast(s, rec, members) ==
    /\ out' = [t \in Sessions |->
                 IF t \in recipients(members, s) /\ TRUE \in WriteResults(t)
                 THEN Append(out[t], rec)
                 ELSE out[t]]
    /\ failed' = [failed EXCEPT ![s] =
                    {t \in recipients(members, s) : TRUE \notin WriteResults(t)}]
    /\ nbcast' = [nbcast EXCEPT ![s] = @ + 1]

\* broadcast_message_to_chat
ChatBroadcastMessageToChat(s, message) ==
    /\ pc[s] = "idle"
    /\ CanLock(s)
    /\ CanWrite
    /\ Broadcast(s, Rec(s, nbcast[s] + 1, "msg", message), chat_members)
    /\ ReturnsUnit
    /\ UNCHANGED <<chat_members, pc, bmsg, conn>>
    /\ UNCHANGED ChatUnused

\* the names of the members in the order of the iteration
get_current_member_names(members, order) ==
    [i \in 1..Len(order) |-> members[order[i]].name]

\* get_current_member_names
ChatGetCurrentMemberNames(s) ==
    /\ pc[s] = "idle"
    /\ CanLock(s)
    /\ \E order \in IterationOrders(DOMAIN chat_members) :
         Returns(s, "get_current_member_names",
                 get_current_member_names(chat_members, order))
    /\ UNCHANGED <<chat_members, pc, bmsg, conn, out, nbcast, failed>>
    /\ UNCHANGED ChatUnused

\* remove_user_from_chat, up to the end of the scope of its guard: the member
\* under the current session id is removed; without such a member the expect
\* panics
ChatRemoveUserFromChat(s) ==
    /\ pc[s] = "idle"
    /\ CanLock(s)
    /\ IF s \notin DOMAIN chat_members
       THEN /\ Panics(s, "remove_user_from_chat")
            /\ UNCHANGED <<chat_members, bmsg>>
       ELSE LET member == chat_members[s]
            IN  /\ chat_members' = remove_key(chat_members, s)
                /\ IF member.registered
                   THEN /\ CanWrite
                        /\ pc' = [pc EXCEPT ![s] = "leaving"]
                        /\ bmsg' = [bmsg EXCEPT ![s] =
                                      Rec(s, nbcast[s] + 1, "leave",
                                          user_left_message(member.name))]
                        /\ ReturnsUnit
                   ELSE /\ ReturnsUnit
                        /\ UNCHANGED <<pc, bmsg>>
    /\ UNCHANGED <<conn, out, nbcast, failed>>
    /\ UNCHANGED ChatUnused

\* remove_user_from_chat, after its guard is dropped: the departure of a
\* registered member is broadcast under a new guard
ChatLeaveBroadcast(s) ==
    /\ pc[s] = "leaving"
    /\ CanLock(s)
    /\ Broadcast(s, bmsg[s], chat_members)
    /\ pc' = [pc EXCEPT ![s] = "idle"]
    /\ bmsg' = [bmsg EXCEPT ![s] = NoLine]
    /\ ReturnsUnit
    /\ UNCHANGED <<chat_members, conn>>
    /\ UNCHANGED ChatUnused

NextChat ==
    \/ \E s \in ChatSessions, chat_member \in NewMembers : ChatAddNewMember(s, chat_member)
    \/ \E s \in ChatSessions, message \in ChatMessages : ChatSendMessageToSession(s, message)
    \/ \E s \in ChatSessions, message \in ChatMessages : ChatBroadcastMessageToChat(s, message)
    \/ \E s \in ChatSessions : ChatGetCurrentMemberNames(s)
    \/ \E s \in ChatSessions : ChatRemoveUserFromChat(s)
    \/ \E s \in ChatSessions : ChatLeaveBroadcast(s)

SpecChat == InitChat /\ [][NextChat]_vars

(* ---------------------------------------------------------------------- *)
(* C18                                                                    *)
(* ---------------------------------------------------------------------- *)

\* C18: a member held under a session id is not replaced: as long as the
\* registry holds the id, an add_new_member of that id leaves its entry as
\* it is.
C18_Claimed ==
    [][\A k \in Sessions :
        (k \in DOMAIN chat_members /\ k \in DOMAIN chat_members')
            => chat_members'[k] = chat_members[k]]_vars

(* ---------------------------------------------------------------------- *)
(* C19                                                                    *)
(* ---------------------------------------------------------------------- *)

\* C19: remove_user_from_chat for a session id the registry does not hold
\* returns "not found" to its caller, whose task goes on, and leaves the
\* registry as it is.
C19_Claimed ==
    [][\A s \in Sessions :
        (/\ s \notin DOMAIN chat_members
         /\ ret' # ret
         /\ ret'.caller = s
         /\ ret'.op = "remove_user_from_chat")
        => /\ ret'.val = <<"not found">>
           /\ pc'[s] = pc[s]
           /\ chat_members' = chat_members]_vars

(* ---------------------------------------------------------------------- *)
(* C20                                                                    *)
(* ---------------------------------------------------------------------- *)

\* the registered members other than the one of the session id
ActiveOthers(members, excluding) ==
    {k \in DOMAIN members : k # excluding /\ members[k].registered}

\* C20: the names get_current_member_names returns to a session are the
\* names of the registered members of the other session ids, one for each
\* such member, in some order.
C20_Claimed ==
    ret.op = "get_current_member_names"
        => \E order \in IterationOrders(ActiveOthers(chat_members, ret.caller)) :
             ret.val = [i \in 1..Len(order) |-> chat_members[order[i]].name]

(* ---------------------------------------------------------------------- *)
(* C21                                                                    *)
(* ---------------------------------------------------------------------- *)

\* C21: while a broadcast is under way the registry does not change and
\* nobody else broadcasts; every line it writes goes to a member that is
\* active and is not the sender, and when it ends every active member but
\* the sender has its line.
C21_Claimed ==
    [][\A s \in Sessions :
        /\ (pc[s] = "broadcast" /\ pc'[s] = "broadcast")
           => /\ chat_members' = chat_members
              /\ \A t \in Sessions \ {s} : pc'[t] # "broadcast"
        /\ pc[s] = "broadcast"
           => \A t \in Sessions :
                out'[t] = Append(out[t], bmsg[s]) => (t # s /\ Active(t))
        /\ (pc[s] = "broadcast" /\ pc'[s] # "broadcast")
           => \A t \in Sessions \ {s} :
                Active(t)' => bmsg[s] \in Records(out'[t])]_vars

\* The first part of C21 alone: the registry and the broadcasting session
\* stay the same from the first to the last write of a broadcast.
OneCriticalSection ==
    [][\A s \in Sessions :
        (pc[s] = "broadcast" /\ pc'[s] = "broadcast")
           => /\ chat_members' = chat_members
              /\ lock' = lock
              /\ \A t \in Sessions \ {s} : pc'[t] # "broadcast"]_vars

(* ---------------------------------------------------------------------- *)
(* C22                                                                    *)
(* ---------------------------------------------------------------------- *)

\* C22: a connection has its own room membership line before any line of
\* a broadcast.
C22_Claimed ==
    \A t \in Sessions : \A i \in 1..Len(out[t]) :
        out[t][i].kind \in {"join", "msg", "leave"}
            => \E j \in 1..(i - 1) : out[t][j].kind = "roster" /\ out[t][j].src = t

(* ---------------------------------------------------------------------- *)
(* C23                                                                    *)
(* ---------------------------------------------------------------------- *)

\* after two clients have registered under one name: s1 and then s2 sent
\* the name "a", the roster of s2 went to s1, a third client is connected
\* and has sent nothing yet
Namesakes == {"s1", "s2"}

InitNamesakes ==
    /\ chat_members = << [name |-> <<"a">>, stream |-> "s1"],
                         [name |-> <<"a">>, stream |-> "s2"] >>
    /\ lock = {}
    /\ pc = [s \in Sessions |->
               IF s \in Namesakes THEN "read" ELSE IF s = "s3" THEN "name" ELSE "closed"]
    /\ user_name = [s \in Sessions |-> IF s \in Namesakes THEN <<"a">> ELSE NoLine]
    /\ bidx = [s \in Sessions |-> 0]
    /\ bmsg = [s \in Sessions |-> NoLine]
    /\ conn = [s \in Sessions |-> IF s = "s4" THEN "closed" ELSE "open"]
    /\ inbuf = [s \in Sessions |-> <<>>]
    /\ out = [s \in Sessions |->
                IF s = "s1"
                THEN << Rec("s1", 0, "prompt", Prompt),
                        Rec("s1", 0, "roster", room_membership_message_builder(<<"a">>, <<>>)),
                        Rec("s2", 0, "roster",
                            room_membership_message_builder(<<"a">>,
                                << [name |-> <<"a">>, stream |-> "s1"] >>)) >>
                ELSE IF s = "s2"
                THEN << Rec("s2", 0, "prompt", Prompt) >>
                ELSE <<>>]
    /\ nsent = 0
    /\ nbcast = [s \in Sessions |-> IF s \in Namesakes THEN 1 ELSE 0]
    /\ present = [s \in Sessions |-> IF s = "s2" THEN {"s1"} ELSE {}]
    /\ firstline = [s \in Sessions |-> IF s \in Namesakes THEN <<"a", "\n">> ELSE NoLine]
    /\ failed = [s \in Sessions |-> {}]
    /\ ret = NoRet

SpecNamesakes == InitNamesakes /\ [][Next]_vars

\* the session was registered and its handler has returned
Departed(t) == pc[t] = "closed" /\ nbcast[t] > 0

\* the positions of the log that hold the leave notice of session t
LeaveNotices(log, t) ==
    {i \in 1..Len(log) : log[i].kind = "leave" /\ log[i].src = t}

\* the lines of the log that were written by broadcasts
Broadcasts(log) ==
    SelectSeq(log, LAMBDA r : r.kind \in {"join", "msg", "leave"})

\* C23: after a session has departed no broadcast is written to its
\* connection and no further line of it reaches anyone, and nobody is
\* told twice that it left.
C23_Claimed ==
    /\ [][\A t \in Sessions :
            Departed(t)
                => /\ Broadcasts(out'[t]) = Broadcasts(out[t])
                   /\ \A u \in Sessions :
                        BroadcastsFrom(out'[u], t) = BroadcastsFrom(out[u], t)]_vars
    /\ [](\A t, u \in Sessions : Cardinality(LeaveNotices(out[u], t)) <= 1)

(* ---------------------------------------------------------------------- *)
(* C24                                                                    *)
(* ---------------------------------------------------------------------- *)

\* the log told its owner t, before position i, that session x is in the
\* room: by t's own roster, built while x was in the room, or by the join
\* notice of x
ToldOfPresence(t, x, i) ==
    \E j \in 1..(i - 1) :
        \/ out[t][j].kind = "join" /\ out[t][j].src = x
        \/ /\ out[t][j].kind = "roster"
           /\ out[t][j].src = t
           /\ x \in present[t]

\* C24: whoever is told that a session has left was told before that it
\* was there.
C24_Claimed ==
    \A t \in Sessions : \A i \in 1..Len(out[t]) :
        out[t][i].kind = "leave" => ToldOfPresence(t, out[t][i].src, i)

(* ---------------------------------------------------------------------- *)
(* C25                                                                    *)
(* ---------------------------------------------------------------------- *)

\* in this step the unread input of session s stays as it is, or grows by
\* a line the client sends, or loses its first line to the read
LinesKept(s) ==
    \/ inbuf'[s] = inbuf[s]
    \/ inbuf[s] # <<>> /\ inbuf'[s] = Tail(inbuf[s])
    \/ /\ Len(inbuf'[s]) = Len(inbuf[s]) + 1
       /\ SubSeq(inbuf'[s], 1, Len(inbuf[s])) = inbuf[s]

\* C25: as long as the handler of a session goes on, no line the client
\* has sent is dropped: a line leaves the unread input only as the next line
\* read, the name first and then the lines of the session loop in the order
\* sent.
C25_Claimed ==
    [][\A s \in Sessions :
        pc'[s] \in {"read", "broadcast"} => LinesKept(s)]_vars

(* ---------------------------------------------------------------------- *)
(* C26                                                                    *)
(* ---------------------------------------------------------------------- *)

\* Every thread is scheduled, a socket write completes, and the mutex is
\* handed to a thread that keeps asking for it: a broadcast under way goes
\* on to its next write, and a handler whose read has returned takes the
\* lock if the lock is free again and again.
Fairness ==
    \A s \in Sessions :
        /\ WF_vars(BroadcastStep(s))
        /\ SF_vars(Register(s))
        /\ SF_vars(ReadMessage(s))

\* the sessions of the fair specification: one registered, one connecting
Contenders == {"s1", "s2"}

\* after the first client has registered as "a" with one line sent, its
\* join broadcast is over and it is blocked in read_line; a second client
\* is connected and has sent nothing yet
InitContended ==
    /\ chat_members = << [name |-> <<"a">>, stream |-> "s1"] >>
    /\ lock = {}
    /\ pc = [s \in Sessions |->
               IF s = "s1" THEN "read" ELSE IF s \in Contenders THEN "name" ELSE "closed"]
    /\ user_name = [s \in Sessions |-> IF s = "s1" THEN <<"a">> ELSE NoLine]
    /\ bidx = [s \in Sessions |-> 0]
    /\ bmsg = [s \in Sessions |-> NoLine]
    /\ conn = [s \in Sessions |-> IF s \in Contenders THEN "open" ELSE "closed"]
    /\ inbuf = [s \in Sessions |-> <<>>]
    /\ out = [s \in Sessions |->
                IF s = "s1"
                THEN << Rec("s1", 0, "prompt", Prompt),
                        Rec("s1", 0, "roster", room_membership_message_builder(<<"a">>, <<>>)) >>
                ELSE <<>>]
    /\ nsent = 1
    /\ nbcast = [s \in Sessions |-> IF s = "s1" THEN 1 ELSE 0]
    /\ present = [s \in Sessions |-> {}]
    /\ firstline = [s \in Sessions |-> IF s = "s1" THEN <<"a", "\n">> ELSE NoLine]
    /\ failed = [s \in Sessions |-> {}]
    /\ ret = NoRet

FairSpec == InitContended /\ [][Next]_vars /\ Fairness

\* the read of session s has returned or can return, so that its handler
\* goes on to lock(), or to its end for a name it rejects
WantsLock(s) == pc[s] \in {"name", "read"} /\ CanRead(s)

\* the handler of session s has got past lock(): it is inside a broadcast,
\* or it has returned
PastLock(s) == s \in lock \/ pc[s] \in {"closed", "panicked"}

\* a handler that has come to lock() eventually gets past it
LockProgress == \A s \in Sessions : WantsLock(s) ~> PastLock(s)

\* C26: the lock is held by the one handler that is inside a broadcast and
\* by no handler that is elsewhere, it is taken only when it is free, and a
\* handler that has come to lock() eventually gets past it.
C26_LockDiscipline ==
    /\ [](lock = {s \in Sessions : pc[s] = "broadcast"} /\ Cardinality(lock) <= 1)
    /\ [][\A s \in Sessions : (s \notin lock /\ s \in lock') => lock = {}]_vars
    /\ LockProgress

\* one handler is inside a broadcast, having taken the lock more than
\* once, while the other has read a line in its session loop and waits for
\* the lock
C26_Witness ==
    \E s, t \in Sessions :
        /\ lock = {s} /\ nbcast[s] >= 2
        /\ t # s /\ pc[t] = "read" /\ WantsLock(t)

(* ---------------------------------------------------------------------- *)
(* C27                                                                    *)
(* ---------------------------------------------------------------------- *)

\* the handler of session s is blocked in read_line, at the name prompt or
\* in its session loop: the client is connected and has sent nothing unread
BlockedReading(s) == pc[s] \in {"name", "read"} /\ ~CanRead(s)

\* C27: a handler that is blocked reading from its client does not hold the
\* lock, so whoever holds the lock is inside a broadcast and goes on without
\* any client having to speak.
C27_NoLockWhileReading ==
    /\ \A s \in Sessions : BlockedReading(s) => s \notin lock
    /\ \A s \in lock : ENABLED BroadcastStep(s)

\* a registered client and a client at the name prompt are both silent
\* while a third session, past its registration, broadcasts a chat message
C27_Witness ==
    \E s, t, u \in Sessions :
        /\ pc[s] = "read" /\ BlockedReading(s)
        /\ pc[u] = "name" /\ BlockedReading(u) /\ out[u] = <<>>
        /\ lock = {t} /\ bmsg[t].kind = "msg"

====
